---- MODULE Spec2Model ----
(***************************************************************************)
(* A model of the fluent client's asynchronous pipeline (minion.go):       *)
(*   - forward mode: runReader / appendMessage / ping on the reader side,  *)
(*     runWriter / waitPending / connect / flushPending / writePending on  *)
(*     the writer side, sharing the pending buffer (muPending) and the     *)
(*     condition variable (cond);                                          *)
(*   - http mode: runHTTPWriter / http_post / combineMsg over httpCh.      *)
(* Spec is the forward-mode pipeline, SpecHTTP the http-mode dispatcher.   *)
(***************************************************************************)
EXTENDS Integers, Sequences, FiniteSets, TLC

\* ---------------------------------------------------------------- bounds
\* number of messages the producers create in one behaviour
MaxMsgs == 2
\* largest encoded frame, in bytes
MaxFrame == 2
\* number of faults the environment injects (server outage, failed write, EOF)
MaxFails == 1
\* the drain-mode dials counted in the history (the count stops there)
MaxDrainDials == 3

\* ------------------------------------------------- configuration (scaled)
bufferLimit == 3
writeThreshold == 1
writeQueueSize == 2
maxConnAttempts == 1

\* number of messages posted in http mode
MaxHttpMsgs == 3
\* number of POSTs that fail in one behaviour
MaxHttpFails == 2
\* number of messages created with a reply channel (synchronous callers)
MaxSyncCalls == 1

httpRetries == 1

\* number of Unbuffered.Post calls in one behaviour
MaxUPosts == 2
\* largest value of the unbuffered client's maxConnAttempts
MaxUAttempts == 3
\* the values of maxHttpPackageSize the http model is checked for
HttpPackageSizes == {1, 3, 4}
\* the values of tagPrefix the http model is checked for
TagPrefixes == {<<>>, <<"p">>}
\* "p.t" is a tag that starts with the prefix "p" and a dot
Tags == {<<"t">>, <<"u">>, <<"p", ".", "t">>}

Ids == 1..(IF MaxMsgs > MaxHttpMsgs THEN MaxMsgs ELSE MaxHttpMsgs)

VARIABLES
    \* ---- messages and their reply channels
    msg,            \* id -> Message envelope
    nextId,         \* next envelope the producers hand out
    reply,          \* id -> replyCh: [buf, closed, sent, got]
    released,       \* id -> number of releaseMessage calls
    tagPrefix,      \* m.tagPrefix
    \* ---- forward mode
    ctxDone,        \* root context cancelled
    incoming,       \* m.incoming
    rpc,            \* reader position
    rphase,         \* "main": select loop, "drain": flush loop after it
    rmsg,           \* message the reader holds
    rbuf,           \* its serialized bytes
    muPending,      \* m.muPending: "unlocked" | "reader" | "writer" | "writerR"
    pending,        \* m.pending
    pendingCap,     \* cap(m.pending)
    pendingOff,     \* where m.pending starts in m.buffer; -1 once append reallocated it
    condL,          \* m.cond.L: "unlocked" | "writer"
    condWait,       \* the writer on cond's notify list: "none" | "waiting" | "signalled"
    wpc,            \* writer position
    conn,           \* the writer's conn: "nil" | "open" | "closed"
    connAttempts,   \* runWriter's connAttempts
    parentBg,       \* parentCtx is context.Background()
    wErr,           \* the error writePending returned
    readerDone,     \* m.readerDone closed
    done,           \* m.done closed
    server,         \* bytes the server has received from the writer
    pingOpen,       \* connections ping dialed and has not closed
    \* ---- history
    taken,          \* ids the reader passed to appendMessage, in order
    leftWith,       \* m.incoming as the reader left its select loop
    appended,       \* every byte appended to pending, in order
    fails,          \* faults injected so far
    rejected,       \* a queue-full, buffer-full or marshal error happened
    latePost,       \* a message was enqueued after the context was cancelled
    cancelFull,     \* pending was non-empty when the context was cancelled
    drainDials,     \* dial attempts made with readerDone closed
    dialOKs,        \* a dial succeeded with readerDone closed
    serverUp,       \* the server accepts connections
    everDown,       \* the server has been unreachable at some time
    \* ---- http mode
    maxHttpPackageSize, \* m.maxHttpPackageSize
    httpCh,         \* m.httpCh
    dpc,            \* dispatcher position
    dmsg,           \* the message the dispatcher is about to post alone
    msgBundles,     \* runHTTPWriter's msgBundles: the bundle heads
    posted,         \* the POSTs issued: [tag, recs, ok]
    rounds,         \* receives of the dispatcher's outer loop
    \* ---- unbuffered client
    uMaxConnAttempts, \* c.maxConnAttempts
    uConn,          \* c.conn: "nil" | "set"
    uOpen,          \* the connection dialed last is still open
    upc,            \* position of the Post call in progress
    attempt,        \* Post's attempt
    uRet,           \* what the last Post returned
    uPosts,         \* Post calls made so far
    uForces,        \* history: the force argument of each connect of this Post
    uOuts           \* history: how each attempt of this Post ended

fwdVars == <<ctxDone, incoming, rpc, rphase, rmsg, rbuf, muPending, pending,
             pendingCap, pendingOff, condL, condWait, wpc, conn, connAttempts, parentBg,
             wErr, readerDone, done, server, pingOpen, taken, leftWith, appended, fails,
             rejected, latePost, cancelFull, drainDials, dialOKs, serverUp, everDown>>
msgVars == <<msg, nextId, reply, released, tagPrefix>>
httpVars == <<maxHttpPackageSize, httpCh, dpc, dmsg, msgBundles, posted, rounds>>
ubVars == <<uMaxConnAttempts, uConn, uOpen, upc, attempt, uRet, uPosts,
            uForces, uOuts>>
vars == <<msgVars, fwdVars, httpVars, ubVars>>

\* ------------------------------------------------------------ messages
NoMsg == [Tag |-> <<>>, tag0 |-> <<>>, size |-> 0, hasReply |-> FALSE,
          via |-> "none", Record |-> <<>>, Len |-> 0, Next |-> 0, End |-> 0,
          combined |-> FALSE, retries |-> 0]
NoReply == [buf |-> <<>>, closed |-> FALSE, sent |-> 0, got |-> "none"]

\* makeMessage: a fresh envelope id carrying one record; End is the envelope
\* itself and Next is nil (tag0 and via are history: the tag and the channel
\* the message was posted with)
makeMessage(id, tag, size, needReply) ==
    [Tag |-> tag, tag0 |-> tag, size |-> size, hasReply |-> needReply,
     via |-> "none", Record |-> <<id>>, Len |-> 1, Next |-> 0, End |-> id,
     combined |-> FALSE, retries |-> 0]

\* the reply channels handed out so far
syncCalls == Cardinality({i \in Ids : msg[i].hasReply})

\* msg.replyCh <- err on a channel of capacity 1 (a send that finds room)
replySend(r) == [r EXCEPT !.buf = Append(@, "err"), !.sent = @ + 1]

\* releaseMessage: recycles the envelope, closing replyCh if present
replyClose(r) == [r EXCEPT !.closed = TRUE]

\* serialize: msg.Tag = p + "." + msg.Tag when a prefix is configured
Prefixed(p, tag) == IF Len(p) > 0 THEN p \o <<".">> \o tag ELSE tag

\* marshaler.Marshal: the frame of a message, one entry per byte
Marshal(id, m) == [k \in 1..m.size |-> <<id, k, m.Tag>>]

\* ------------------------------------------------------- pending buffer
isFullOff(p, buf) == Len(p) + Len(buf) > bufferLimit + 1
isFull(p, buf) == Len(p) + Len(buf) > bufferLimit

appendFront(p, buf) == buf \o p
appendBytes(p, buf) == p \o buf

\* append() reallocates when the bytes do not fit the slice's capacity
growCap(cap, need) == IF need <= cap THEN cap
                      ELSE IF need > 2 * cap THEN need ELSE 2 * cap

\* append() keeps the backing array when the bytes fit, else moves off it
growOff(off, cap, need) == IF need <= cap THEN off ELSE -1

\* writePending: m.pending = m.pending[n:], and m.buffer[0:0] once empty
resliceCapKeep(cap, n, len) == cap - n
resliceCap(cap, n, len) == IF n = len THEN bufferLimit ELSE cap - n
resliceOff(off, n, len) == IF n = len THEN 0
                           ELSE IF off < 0 THEN off ELSE off + n

pendingAvailableEq(p, threshold) == Len(p) >= threshold
pendingAvailable(p, threshold) == Len(p) > threshold

\* ---------------------------------------------------------------- Init
InitPipeline ==
    /\ msg = [i \in Ids |-> NoMsg]
    /\ nextId = 1
    /\ reply = [i \in Ids |-> NoReply]
    /\ released = [i \in Ids |-> 0]
    /\ httpCh = <<>>
    /\ dpc = "recv"
    /\ dmsg = 0
    /\ msgBundles = {}
    /\ posted = <<>>
    /\ rounds = 0
    /\ ctxDone = FALSE
    /\ incoming = <<>>
    /\ rpc = "select"
    /\ rphase = "main"
    /\ rmsg = 0
    /\ rbuf = <<>>
    /\ muPending = "unlocked"
    /\ pending = <<>>
    /\ pendingCap = bufferLimit
    /\ pendingOff = 0
    /\ condL = "unlocked"
    /\ condWait = "none"
    /\ wpc = "wp_select"
    /\ conn = "nil"
    /\ connAttempts = 0
    /\ parentBg = FALSE
    /\ wErr = FALSE
    /\ readerDone = FALSE
    /\ done = FALSE
    /\ server = <<>>
    /\ pingOpen = 0
    /\ taken = <<>>
    /\ leftWith = <<>>
    /\ appended = <<>>
    /\ fails = 0
    /\ rejected = FALSE
    /\ latePost = FALSE
    /\ cancelFull = FALSE
    /\ drainDials = 0
    /\ dialOKs = FALSE
    /\ serverUp = TRUE
    /\ everDown = FALSE
    /\ uConn = "nil"
    /\ uOpen = FALSE
    /\ upc = "idle"
    /\ attempt = 0
    /\ uRet = "none"
    /\ uPosts = 0
    /\ uForces = <<>>
    /\ uOuts = <<>>

\* newMinion with method "forward"
Init ==
    /\ InitPipeline
    /\ tagPrefix = <<"p">>
    /\ maxHttpPackageSize = 3
    /\ uMaxConnAttempts = maxConnAttempts

\* newMinion with method "http"
InitHTTP ==
    /\ InitPipeline
    /\ tagPrefix \in TagPrefixes
    /\ maxHttpPackageSize \in HttpPackageSizes
    /\ uMaxConnAttempts = maxConnAttempts

\* what no forward-mode step touches
restUnchanged == UNCHANGED <<serverUp, everDown, httpVars, ubVars>>

\* ------------------------------------------------------------ producers
\* Client.Post: build a Message and send it to m.incoming without blocking;
\* a full channel fails with "queue full" and nothing is enqueued.
Post ==
    /\ nextId <= MaxMsgs
    /\ \E size \in 1..MaxFrame, needReply \in BOOLEAN :
        /\ needReply => syncCalls < MaxSyncCalls
        /\ LET m == makeMessage(nextId, <<"t">>, size, needReply) IN
           IF Len(incoming) < writeQueueSize
           THEN /\ msg' = [msg EXCEPT ![nextId] = [m EXCEPT !.via = "incoming"]]
                /\ incoming' = Append(incoming, nextId)
                /\ latePost' = (latePost \/ ctxDone)
                /\ UNCHANGED rejected
           ELSE /\ msg' = [msg EXCEPT ![nextId] = m]
                /\ rejected' = TRUE
                /\ UNCHANGED <<incoming, latePost>>
    /\ nextId' = nextId + 1
    /\ UNCHANGED <<reply, released, tagPrefix, ctxDone, rpc, rphase, rmsg, rbuf,
                   muPending, pending, pendingCap, pendingOff, condL, condWait, wpc, conn,
                   connAttempts, parentBg, wErr, readerDone, done, server,
                   pingOpen, taken, leftWith, appended, fails, cancelFull, drainDials,
                   dialOKs>>
    /\ restUnchanged

\* Shutdown: the root context of the pipeline is cancelled.
Cancel ==
    /\ ~ctxDone
    /\ ctxDone' = TRUE
    /\ cancelFull' = (pending # <<>>)
    /\ UNCHANGED <<msgVars, incoming, rpc, rphase, rmsg, rbuf, muPending,
                   pending, pendingCap, pendingOff, condL, condWait, wpc, conn,
                   connAttempts, parentBg, wErr, readerDone, done, server,
                   pingOpen, taken, leftWith, appended, fails, rejected, latePost,
                   drainDials, dialOKs>>
    /\ restUnchanged

\* The caller of a synchronous Post or Ping reads its reply channel once:
\* a buffered value, or nil from the closed channel.
callerRecv(id) ==
    /\ msg[id].hasReply
    /\ reply[id].got = "none"
    /\ \/ /\ reply[id].buf # <<>>
          /\ reply' = [reply EXCEPT ![id].got = Head(reply[id].buf),
                                    ![id].buf = Tail(reply[id].buf)]
       \/ /\ reply[id].buf = <<>>
          /\ reply[id].closed
          /\ reply' = [reply EXCEPT ![id].got = "nil"]
    /\ UNCHANGED <<msg, nextId, released, tagPrefix, fwdVars, httpVars,
                   ubVars>>

\* ---------------------------------------------------------- cond.Broadcast
broadcastLost(w) == w
broadcast(w) == IF w = "waiting" THEN "signalled" ELSE w

\* --------------------------------------------------------------- reader
readerUnchanged == UNCHANGED <<nextId, tagPrefix, ctxDone, condL, wpc, conn,
                               connAttempts, parentBg, wErr, done, server,
                               fails, latePost, cancelFull, drainDials, dialOKs,
                               serverUp, everDown, httpVars, ubVars>>

\* runReader's select, case <-ctx.Done(): leave the loop
readerCancel ==
    /\ rpc = "select"
    /\ ctxDone
    /\ rpc' = "drain"
    /\ rphase' = "drain"
    /\ leftWith' = incoming
    /\ UNCHANGED <<msg, reply, released, incoming, rmsg, rbuf, muPending,
                   pending, pendingCap, pendingOff, condWait, readerDone, pingOpen, taken,
                   appended, rejected>>
    /\ readerUnchanged

\* runReader's select, case msg := <-m.incoming, and the flush loop
\* for len(m.incoming) > 0 after it: the message goes to appendMessage
readerRecv ==
    /\ rpc \in {"select", "drain"}
    /\ incoming # <<>>
    /\ rmsg' = Head(incoming)
    /\ incoming' = Tail(incoming)
    /\ taken' = Append(taken, Head(incoming))
    /\ rpc' = "am_serialize"
    /\ UNCHANGED <<msg, reply, released, rphase, rbuf, muPending, pending,
                   pendingCap, pendingOff, condWait, readerDone, pingOpen, appended,
                   rejected, leftWith>>
    /\ readerUnchanged

\* appendMessage: serialize; on a marshal error reply, release and return
amSerialize ==
    /\ rpc = "am_serialize"
    /\ LET tag == Prefixed(tagPrefix, msg[rmsg].Tag)
           m == [msg[rmsg] EXCEPT !.Tag = tag] IN
       /\ msg' = [msg EXCEPT ![rmsg] = m]
       /\ \/ /\ rbuf' = Marshal(rmsg, m)
             /\ rpc' = "am_lock"
             /\ UNCHANGED <<reply, released, rmsg, rejected>>
          \/ /\ reply' = [reply EXCEPT ![rmsg] =
                    replyClose(IF m.hasReply THEN replySend(@) ELSE @)]
             /\ released' = [released EXCEPT ![rmsg] = @ + 1]
             /\ rejected' = TRUE
             /\ rmsg' = 0
             /\ rpc' = IF rphase = "main" THEN "select" ELSE "drain"
             /\ UNCHANGED rbuf
    /\ UNCHANGED <<incoming, rphase, muPending, pending, pendingCap, pendingOff, condWait,
                   readerDone, pingOpen, taken, leftWith, appended>>
    /\ readerUnchanged

\* appendMessage: m.muPending.Lock(), the buffer-full check and the append
amLock ==
    /\ rpc = "am_lock"
    /\ muPending = "unlocked"
    /\ muPending' = "reader"
    /\ IF isFull(pending, rbuf)
       THEN /\ reply' = [reply EXCEPT ![rmsg] =
                   IF msg[rmsg].hasReply THEN replySend(@) ELSE @]
            /\ rejected' = TRUE
            /\ UNCHANGED <<pending, pendingCap, pendingOff, appended>>
       ELSE /\ pending' = appendBytes(pending, rbuf)
            /\ pendingCap' = growCap(pendingCap, Len(pending) + Len(rbuf))
            /\ pendingOff' = growOff(pendingOff, pendingCap,
                                     Len(pending) + Len(rbuf))
            /\ appended' = appended \o rbuf
            /\ UNCHANGED <<reply, rejected>>
    /\ rpc' = "am_unlock"
    /\ UNCHANGED <<msg, released, incoming, rphase, rmsg, rbuf, condWait,
                   readerDone, pingOpen, taken, leftWith>>
    /\ readerUnchanged

\* appendMessage's deferred m.muPending.Unlock()
amUnlock ==
    /\ rpc = "am_unlock"
    /\ muPending' = "unlocked"
    /\ rpc' = "am_broadcast"
    /\ UNCHANGED <<msg, reply, released, incoming, rphase, rmsg, rbuf, pending,
                   pendingCap, pendingOff, condWait, readerDone, pingOpen, taken, leftWith, appended,
                   rejected>>
    /\ readerUnchanged

\* appendMessage's deferred m.cond.Broadcast(), then releaseMessage(msg)
amBroadcast ==
    /\ rpc = "am_broadcast"
    /\ condWait' = broadcast(condWait)
    /\ reply' = [reply EXCEPT ![rmsg] = replyClose(@)]
    /\ released' = [released EXCEPT ![rmsg] = @ + 1]
    /\ rmsg' = 0
    /\ rbuf' = <<>>
    /\ rpc' = IF rphase = "main" THEN "select" ELSE "drain"
    /\ UNCHANGED <<msg, incoming, rphase, muPending, pending, pendingCap, pendingOff,
                   readerDone, pingOpen, taken, leftWith, appended, rejected>>
    /\ readerUnchanged

\* ping: dial, serialize, write; any error goes to replyCh; release
ping ==
    /\ rpc = "select"
    /\ nextId <= MaxMsgs
    /\ syncCalls < MaxSyncCalls
    /\ LET id == nextId
           m0 == [makeMessage(id, <<"t">>, 1, TRUE) EXCEPT !.via = "ping"] IN
       \E out \in {"ok", "dial", "marshal", "write"} :
          /\ (out = "dial") = ~serverUp
          /\ out = "write" => fails < MaxFails
          /\ fails' = IF out = "write" THEN fails + 1 ELSE fails
          /\ msg' = [msg EXCEPT ![id] =
                 IF out = "dial" THEN m0
                 ELSE [m0 EXCEPT !.Tag = Prefixed(tagPrefix, m0.Tag)]]
          /\ pingOpen' = IF out = "dial" THEN pingOpen ELSE pingOpen + 1
          /\ reply' = [reply EXCEPT ![id] =
                 replyClose(IF out = "ok" THEN @ ELSE replySend(@))]
          /\ released' = [released EXCEPT ![id] = @ + 1]
    /\ nextId' = nextId + 1
    /\ UNCHANGED <<tagPrefix, ctxDone, incoming, rpc, rphase, rmsg, rbuf,
                   muPending, pending, pendingCap, pendingOff, condL, condWait, wpc, conn,
                   connAttempts, parentBg, wErr, readerDone, done, server,
                   taken, leftWith, appended, rejected, latePost, cancelFull, drainDials,
                   dialOKs>>
    /\ restUnchanged

\* runReader: the flush loop for len(m.incoming) > 0 is over
flushDoneAlways(q) == TRUE
flushDone(q) == Len(q) = 0

\* runReader after the loops: the deferred m.cond.Broadcast()
readerFinalBroadcast ==
    /\ rpc = "drain"
    /\ flushDone(incoming)
    /\ condWait' = broadcast(condWait)
    /\ rpc' = "close"
    /\ UNCHANGED <<msg, reply, released, incoming, rphase, rmsg, rbuf,
                   muPending, pending, pendingCap, pendingOff, readerDone, pingOpen, taken, leftWith,
                   appended, rejected>>
    /\ readerUnchanged

\* runReader's deferred close(m.readerDone)
readerClose ==
    /\ rpc = "close"
    /\ readerDone' = TRUE
    /\ rpc' = "exited"
    /\ UNCHANGED <<msg, reply, released, incoming, rphase, rmsg, rbuf,
                   muPending, pending, pendingCap, pendingOff, condWait, pingOpen, taken, leftWith,
                   appended, rejected>>
    /\ readerUnchanged

\* --------------------------------------------------------------- writer
writerUnchanged == UNCHANGED <<msgVars, ctxDone, incoming, rpc, rphase, rmsg,
                               rbuf, readerDone, pingOpen, taken, leftWith, appended,
                               rejected, latePost, cancelFull, serverUp,
                               everDown, httpVars, ubVars>>

\* runWriter: parentCtx is context.Background() once the reader is done
dialParentCtx(rd) == FALSE
dialParent(rd) == rd

\* runWriter: the drain-mode bail-out after a failed connect
bailOut(attempts) == maxConnAttempts > 0 /\ attempts > maxConnAttempts

\* runWriter: in drain mode the writer returns when nothing is pending
drainExitAlways(p) == TRUE
drainExit(p) == ~pendingAvailable(p, 0)

\* waitPending: the select on ctx.Done() before m.cond.L.Lock()
waitPendingEnter ==
    /\ wpc = "wp_select"
    /\ IF ctxDone
       THEN /\ wpc' = "conn_loop"
            /\ connAttempts' = 0
            /\ UNCHANGED condL
       ELSE /\ wpc' = "wp_check"
            /\ condL' = "writer"
            /\ UNCHANGED connAttempts
    /\ UNCHANGED <<muPending, pending, pendingCap, pendingOff, condWait, conn, parentBg,
                   wErr, done, server, fails, drainDials, dialOKs>>
    /\ writerUnchanged

\* pendingAvailable: m.muPending.RLock()
pendingRLock ==
    /\ wpc \in {"wp_check", "fl_check", "dr_check"}
    /\ muPending = "unlocked"
    /\ muPending' = "writerR"
    /\ wpc' = CASE wpc = "wp_check" -> "wp_rlocked"
                [] wpc = "fl_check" -> "fl_rlocked"
                [] wpc = "dr_check" -> "dr_rlocked"
    /\ UNCHANGED <<pending, pendingCap, pendingOff, condL, condWait, conn, connAttempts,
                   parentBg, wErr, done, server, fails, drainDials, dialOKs>>
    /\ writerUnchanged

\* waitPending: if m.pendingAvailable(m.writeThreshold) { break }
waitPendingCheck ==
    /\ wpc = "wp_rlocked"
    /\ muPending' = "unlocked"
    /\ IF pendingAvailable(pending, writeThreshold)
       THEN /\ wpc' = "conn_loop"
            /\ condL' = "unlocked"
            /\ connAttempts' = 0
       ELSE /\ wpc' = "wp_ctx"
            /\ UNCHANGED <<condL, connAttempts>>
    /\ UNCHANGED <<pending, pendingCap, pendingOff, condWait, conn, parentBg, wErr, done,
                   server, fails, drainDials, dialOKs>>
    /\ writerUnchanged

\* waitPending: the select on ctx.Done() inside the loop
waitPendingCtx ==
    /\ wpc = "wp_ctx"
    /\ IF ctxDone
       THEN /\ wpc' = "conn_loop"
            /\ condL' = "unlocked"
            /\ connAttempts' = 0
       ELSE /\ wpc' = "wp_wait"
            /\ UNCHANGED <<condL, connAttempts>>
    /\ UNCHANGED <<muPending, pending, pendingCap, pendingOff, condWait, conn, parentBg,
                   wErr, done, server, fails, drainDials, dialOKs>>
    /\ writerUnchanged

\* m.cond.Wait(): join the notify list and unlock m.cond.L
condWaitEnter ==
    /\ wpc = "wp_wait"
    /\ condWait' = "waiting"
    /\ condL' = "unlocked"
    /\ wpc' = "wp_asleep"
    /\ UNCHANGED <<muPending, pending, pendingCap, pendingOff, conn, connAttempts,
                   parentBg, wErr, done, server, fails, drainDials, dialOKs>>
    /\ writerUnchanged

\* m.cond.Wait(): woken by a Broadcast, lock m.cond.L again
condWaitWake ==
    /\ wpc = "wp_asleep"
    /\ condWait = "signalled"
    /\ condWait' = "none"
    /\ condL' = "writer"
    /\ wpc' = "wp_check"
    /\ UNCHANGED <<muPending, pending, pendingCap, pendingOff, conn, connAttempts,
                   parentBg, wErr, done, server, fails, drainDials, dialOKs>>
    /\ writerUnchanged

\* runWriter: for conn == nil { parentCtx := ...
connLoop ==
    /\ wpc = "conn_loop"
    /\ IF conn # "nil"
       THEN /\ wpc' = "flush"
            /\ UNCHANGED parentBg
       ELSE /\ wpc' = "dial"
            /\ parentBg' = dialParent(readerDone)
    /\ UNCHANGED <<muPending, pending, pendingCap, pendingOff, condL, condWait, conn,
                   connAttempts, wErr, done, server, fails, drainDials,
                   dialOKs>>
    /\ writerUnchanged

\* connect: one dial; a failure backs off and returns nil
connect ==
    /\ wpc = "dial"
    /\ drainDials' = IF readerDone /\ drainDials < MaxDrainDials
                     THEN drainDials + 1 ELSE drainDials
    /\ \/ /\ serverUp
          /\ conn' = "open"
          /\ wpc' = "flush"
          /\ dialOKs' = (dialOKs \/ readerDone)
       \/ /\ ~serverUp \/ (~parentBg /\ ctxDone)
          /\ wpc' = "conn_failed"
          /\ UNCHANGED <<conn, dialOKs>>
    /\ UNCHANGED <<muPending, pending, pendingCap, pendingOff, condL, condWait,
                   connAttempts, parentBg, wErr, done, server, fails>>
    /\ writerUnchanged

\* runWriter: if m.isReaderDone() { connAttempts++; ... return }
connFailed ==
    /\ wpc = "conn_failed"
    /\ IF readerDone
       THEN /\ connAttempts' = connAttempts + 1
            /\ wpc' = IF bailOut(connAttempts + 1) THEN "exit" ELSE "conn_loop"
       ELSE /\ wpc' = "conn_loop"
            /\ UNCHANGED connAttempts
    /\ UNCHANGED <<muPending, pending, pendingCap, pendingOff, condL, condWait, conn,
                   parentBg, wErr, done, server, fails, drainDials, dialOKs>>
    /\ writerUnchanged

\* runWriter: if err := m.flushPending(conn); err != nil { conn.Close();
\* conn = nil }
connAfterFlushKeep(err, c) == c
connAfterFlush(err, c) == IF err THEN "nil" ELSE c

\* writePending: lock, one conn.Write of the whole of m.pending, advance
writePending ==
    /\ wpc = "flush"
    /\ muPending = "unlocked"
    /\ muPending' = "writer"
    /\ wpc' = "wr_unlock"
    /\ \/ /\ conn = "open"
          /\ \E n \in (IF pending = <<>> THEN {0} ELSE 1..Len(pending)) :
                /\ server' = server \o SubSeq(pending, 1, n)
                /\ pending' = SubSeq(pending, n + 1, Len(pending))
                /\ pendingCap' = resliceCap(pendingCap, n, Len(pending))
                /\ pendingOff' = resliceOff(pendingOff, n, Len(pending))
          /\ wErr' = FALSE
          /\ UNCHANGED fails
       \/ /\ conn = "open"
          /\ fails < MaxFails
          /\ fails' = fails + 1
          /\ \E k \in {0, Len(pending)} :
                server' = server \o SubSeq(pending, 1, k)
          /\ wErr' = TRUE
          /\ UNCHANGED <<pending, pendingCap, pendingOff>>
       \/ /\ conn = "closed"
          /\ wErr' = TRUE
          /\ UNCHANGED <<pending, pendingCap, pendingOff, server, fails>>
    /\ UNCHANGED <<condL, condWait, conn, connAttempts, parentBg, done,
                   drainDials, dialOKs>>
    /\ writerUnchanged

\* writePending's deferred Unlock; runWriter closes the conn on an error
writeUnlock ==
    /\ wpc = "wr_unlock"
    /\ muPending' = "unlocked"
    /\ conn' = connAfterFlush(wErr, conn)
    /\ wpc' = IF wErr THEN "drain_q" ELSE "fl_check"
    /\ wErr' = FALSE
    /\ UNCHANGED <<pending, pendingCap, pendingOff, condL, condWait, connAttempts,
                   parentBg, done, server, fails, drainDials, dialOKs>>
    /\ writerUnchanged

\* flushPending: if !m.pendingAvailable(0) { break }
flushCheck ==
    /\ wpc = "fl_rlocked"
    /\ muPending' = "unlocked"
    /\ wpc' = IF pendingAvailable(pending, 0) THEN "flush" ELSE "drain_q"
    /\ UNCHANGED <<pending, pendingCap, pendingOff, condL, condWait, conn, connAttempts,
                   parentBg, wErr, done, server, fails, drainDials, dialOKs>>
    /\ writerUnchanged

\* runWriter: if m.isReaderDone() { ... } at the end of the loop body
drainQuery ==
    /\ wpc = "drain_q"
    /\ wpc' = IF readerDone THEN "dr_check" ELSE "wp_select"
    /\ UNCHANGED <<muPending, pending, pendingCap, pendingOff, condL, condWait, conn,
                   connAttempts, parentBg, wErr, done, server, fails,
                   drainDials, dialOKs>>
    /\ writerUnchanged

\* runWriter: if !m.pendingAvailable(0) { return }
drainCheck ==
    /\ wpc = "dr_rlocked"
    /\ muPending' = "unlocked"
    /\ wpc' = IF drainExit(pending) THEN "exit" ELSE "wp_select"
    /\ UNCHANGED <<pending, pendingCap, pendingOff, condL, condWait, conn, connAttempts,
                   parentBg, wErr, done, server, fails, drainDials, dialOKs>>
    /\ writerUnchanged

\* runWriter's defers: the cleanup closure got conn == nil as its argument
\* when it was deferred, so it closes nothing; then close(m.done)
writerExit ==
    /\ wpc = "exit"
    /\ done' = TRUE
    /\ wpc' = "done"
    /\ UNCHANGED <<muPending, pending, pendingCap, pendingOff, condL, condWait, conn,
                   connAttempts, parentBg, wErr, server, fails, drainDials,
                   dialOKs>>
    /\ writerUnchanged

\* the connection monitor: the peer closes, Read returns io.EOF, conn.Close()
connMonitor ==
    /\ conn = "open"
    /\ fails < MaxFails
    /\ conn' = "closed"
    /\ fails' = fails + 1
    /\ UNCHANGED <<muPending, pending, pendingCap, pendingOff, condL, condWait, wpc,
                   connAttempts, parentBg, wErr, done, server, drainDials,
                   dialOKs>>
    /\ writerUnchanged

\* the server goes down or comes back
serverToggle ==
    /\ fails < MaxFails
    /\ fails' = fails + 1
    /\ serverUp' = ~serverUp
    /\ everDown' = TRUE
    /\ UNCHANGED <<msgVars, ctxDone, incoming, rpc, rphase, rmsg, rbuf,
                   muPending, pending, pendingCap, pendingOff, condL, condWait, wpc, conn,
                   connAttempts, parentBg, wErr, readerDone, done, server,
                   pingOpen, taken, leftWith, appended, rejected, latePost, cancelFull,
                   drainDials, dialOKs, httpVars, ubVars>>

\* ------------------------------------------------------- specification
Next ==
    \/ Post
    \/ Cancel
    \/ serverToggle
    \/ readerCancel
    \/ readerRecv
    \/ amSerialize
    \/ amLock
    \/ amUnlock
    \/ amBroadcast
    \/ ping
    \/ readerFinalBroadcast
    \/ readerClose
    \/ waitPendingEnter
    \/ pendingRLock
    \/ waitPendingCheck
    \/ waitPendingCtx
    \/ condWaitEnter
    \/ condWaitWake
    \/ connLoop
    \/ connect
    \/ connFailed
    \/ writePending
    \/ writeUnlock
    \/ flushCheck
    \/ drainQuery
    \/ drainCheck
    \/ writerExit
    \/ connMonitor

Spec == Init /\ [][Next]_vars

\* ------------------------------------- a server that fails every write
\* writePending against a server that accepts connections and fails every
\* write: conn.Write returns an error and delivers nothing (a write of no
\* bytes returns 0, nil)
writeFailing ==
    /\ wpc = "flush"
    /\ muPending = "unlocked"
    /\ conn # "nil"
    /\ muPending' = "writer"
    /\ wpc' = "wr_unlock"
    /\ wErr' = (pending # <<>>)
    /\ UNCHANGED <<pending, pendingCap, pendingOff, server, fails, condL,
                   condWait, conn, connAttempts, parentBg, done, drainDials,
                   dialOKs>>
    /\ writerUnchanged

\* the steps of the writer goroutine facing that server
writerStepFailing ==
    \/ waitPendingEnter
    \/ pendingRLock
    \/ waitPendingCheck
    \/ waitPendingCtx
    \/ condWaitEnter
    \/ condWaitWake
    \/ connLoop
    \/ connect
    \/ connFailed
    \/ writeFailing
    \/ writeUnlock
    \/ flushCheck
    \/ drainQuery
    \/ drainCheck
    \/ writerExit

NextFailing ==
    \/ Post
    \/ Cancel
    \/ readerCancel
    \/ readerRecv
    \/ amSerialize
    \/ amLock
    \/ amUnlock
    \/ amBroadcast
    \/ readerFinalBroadcast
    \/ readerClose
    \/ waitPendingEnter
    \/ pendingRLock
    \/ waitPendingCheck
    \/ waitPendingCtx
    \/ condWaitEnter
    \/ condWaitWake
    \/ connLoop
    \/ connect
    \/ connFailed
    \/ writeFailing
    \/ writeUnlock
    \/ flushCheck
    \/ drainQuery
    \/ drainCheck
    \/ writerExit

\* the writer goroutine keeps running: every dial and every write returns
SpecFailing == Init /\ [][NextFailing]_vars /\ WF_vars(writerStepFailing)

\* ============================================================ http mode
\* Client.Post in http mode: build a Message and send it to m.httpCh
\* without blocking; a full channel fails with "queue full".
httpClientPost ==
    /\ nextId <= MaxHttpMsgs
    /\ \E tag \in Tags, needReply \in BOOLEAN :
        /\ needReply => syncCalls < MaxSyncCalls
        /\ LET m == makeMessage(nextId, tag, 1, needReply) IN
           IF Len(httpCh) < bufferLimit
           THEN /\ msg' = [msg EXCEPT ![nextId] = [m EXCEPT !.via = "http"]]
                /\ httpCh' = Append(httpCh, nextId)
           ELSE /\ msg' = [msg EXCEPT ![nextId] = m]
                /\ UNCHANGED httpCh
    /\ nextId' = nextId + 1
    /\ UNCHANGED <<reply, released, tagPrefix, fwdVars, ubVars, maxHttpPackageSize,
                   dpc, dmsg, msgBundles, posted, rounds>>

RECURSIVE chainRecords(_, _, _)
\* combineMsg's loop: the records of nextMsg, nextMsg.Next, ... (a combined
\* message contributes its whole list, any other its one record)
chainRecords(ms, id, fuel) ==
    IF id = 0 \/ fuel = 0 THEN <<>>
    ELSE ms[id].Record \o chainRecords(ms, ms[id].Next, fuel - 1)

\* combineMsg: fold the siblings linked from msg.Next into msg.Record
combineMsg(ms, id) ==
    IF ms[id].Next = 0 THEN ms
    ELSE LET records == ms[id].Record
                        \o chainRecords(ms, ms[id].Next, Cardinality(Ids))
         IN [ms EXCEPT ![id].Record = records,
                       ![id].combined = TRUE,
                       ![id].Next = 0,
                       ![id].Len = Len(records)]

\* combineMsg: releaseMessage(msg.Next), the one envelope it releases
combineReleased(ms, id) == IF ms[id].Next = 0 THEN {} ELSE {ms[id].Next}

\* http_post's first defer: a failed message is dropped once its retries
\* exceed the cap
retryDrop(retries) == retries > httpRetries

\* the POSTs that have failed so far
httpFails == Cardinality({i \in 1..Len(posted) : ~posted[i].ok})

\* http_post: combine, serialize, POST to address/Tag; then the defers: the
\* non-blocking reply of the error, and release or requeue
http_post(id, ok) ==
    LET ms1 == combineMsg(msg, id)
        sib == combineReleased(msg, id)
        tag == Prefixed(tagPrefix, ms1[id].Tag)
        ms2 == [ms1 EXCEPT ![id].Tag = tag]
        m == ms2[id]
        drop == retryDrop(m.retries)
        requeue == ~ok /\ ~drop /\ Len(httpCh) < bufferLimit
        rel == sib \cup (IF requeue THEN {} ELSE {id})
        errSent == /\ ~ok
                   /\ m.hasReply
                   /\ ~reply[id].closed
                   /\ Len(reply[id].buf) < 1
    IN
    /\ ~ok => httpFails < MaxHttpFails
    /\ posted' = Append(posted, [tag |-> tag, recs |-> m.Record, ok |-> ok])
    /\ msg' = IF ~ok /\ ~drop THEN [ms2 EXCEPT ![id].retries = @ + 1] ELSE ms2
    /\ httpCh' = IF requeue THEN Append(httpCh, id) ELSE httpCh
    /\ reply' = [i \in Ids |->
          LET r1 == IF i = id /\ errSent THEN replySend(reply[i]) ELSE reply[i]
          IN IF i \in rel THEN replyClose(r1) ELSE r1]
    /\ released' = [i \in Ids |->
          IF i \in rel THEN released[i] + 1 ELSE released[i]]

\* runHTTPWriter: a message that would fill the bundle is posted alone
bundleFull(headLen, nextLen) == headLen + nextLen >= maxHttpPackageSize

\* runHTTPWriter: Len += nextMsg.Len; End.Next = nextMsg; End = nextMsg.End
spliceMsg(ms, h, next) ==
    LET ms1 == [ms EXCEPT ![h].Len = @ + ms[next].Len]
        ms2 == [ms1 EXCEPT ![ms1[h].End].Next = next]
    IN [ms2 EXCEPT ![h].End = ms2[next].End]

\* runHTTPWriter: `for {`, the dispatcher's loop has no condition
dispatchLoopCtx(cancelled) == ~cancelled
dispatchLoop(cancelled) == TRUE

\* runHTTPWriter: msg := <-m.httpCh; a message already at the package size
\* is posted alone, any other opens the bundle map
httpRecv ==
    /\ dpc = "recv"
    /\ IF dispatchLoop(ctxDone)
       THEN /\ httpCh # <<>>
            /\ LET id == Head(httpCh) IN
               IF msg[id].Len >= maxHttpPackageSize
               THEN /\ dmsg' = id
                    /\ dpc' = "post_single"
                    /\ msgBundles' = {}
               ELSE /\ msgBundles' = {id}
                    /\ dpc' = "drain"
                    /\ dmsg' = 0
            /\ httpCh' = Tail(httpCh)
            /\ rounds' = IF rounds < 2 THEN rounds + 1 ELSE rounds
       ELSE /\ dpc' = "exited"
            /\ UNCHANGED <<httpCh, dmsg, msgBundles, rounds>>
    /\ UNCHANGED <<msgVars, fwdVars, ubVars, maxHttpPackageSize, posted>>

\* runHTTPWriter: m.http_post(msg); continue
httpPostSingle ==
    /\ dpc = "post_single"
    /\ \E ok \in BOOLEAN : http_post(dmsg, ok)
    /\ dpc' = "recv"
    /\ dmsg' = 0
    /\ UNCHANGED <<nextId, tagPrefix, fwdVars, ubVars, maxHttpPackageSize, msgBundles,
                   rounds>>

\* runHTTPWriter: for len(m.httpCh) > 0 { nextMsg := <-m.httpCh ... }
httpDrain ==
    /\ dpc = "drain"
    /\ IF httpCh = <<>>
       THEN /\ dpc' = "post_bundles"
            /\ UNCHANGED <<msg, httpCh, msgBundles, dmsg>>
       ELSE LET next == Head(httpCh)
                heads == {h \in msgBundles : msg[h].Tag = msg[next].Tag}
            IN
            /\ httpCh' = Tail(httpCh)
            /\ IF heads = {}
               THEN /\ msgBundles' = msgBundles \cup {next}
                    /\ UNCHANGED <<msg, dmsg, dpc>>
               ELSE LET h == CHOOSE x \in heads : TRUE IN
                    IF bundleFull(msg[h].Len, msg[next].Len)
                    THEN /\ dmsg' = next
                         /\ dpc' = "post_next"
                         /\ UNCHANGED <<msg, msgBundles>>
                    ELSE /\ msg' = spliceMsg(msg, h, next)
                         /\ UNCHANGED <<msgBundles, dmsg, dpc>>
    /\ UNCHANGED <<nextId, reply, released, tagPrefix, fwdVars, ubVars,
                   maxHttpPackageSize, posted, rounds>>

\* runHTTPWriter: m.http_post(nextMsg); continue
httpPostNext ==
    /\ dpc = "post_next"
    /\ \E ok \in BOOLEAN : http_post(dmsg, ok)
    /\ dpc' = "drain"
    /\ dmsg' = 0
    /\ UNCHANGED <<nextId, tagPrefix, fwdVars, ubVars, maxHttpPackageSize, msgBundles,
                   rounds>>

\* runHTTPWriter: for _, s := range msgBundles { m.http_post(s) }
httpPostBundle ==
    /\ dpc = "post_bundles"
    /\ IF msgBundles = {}
       THEN /\ dpc' = "recv"
            /\ UNCHANGED <<msg, reply, released, httpCh, posted, msgBundles>>
       ELSE /\ \E h \in msgBundles, ok \in BOOLEAN :
                  /\ http_post(h, ok)
                  /\ msgBundles' = msgBundles \ {h}
            /\ UNCHANGED dpc
    /\ UNCHANGED <<nextId, tagPrefix, fwdVars, ubVars, maxHttpPackageSize, dmsg,
                   rounds>>

NextHTTP ==
    \/ httpClientPost
    \/ Cancel
    \/ \E id \in Ids : callerRecv(id)
    \/ httpRecv
    \/ httpPostSingle
    \/ httpDrain
    \/ httpPostNext
    \/ httpPostBundle

SpecHTTP == InitHTTP /\ [][NextHTTP]_vars

\* ==================================================== unbuffered client
\* NewUnbuffered: no cached connection, maxConnAttempts from the options
InitUnbuffered ==
    /\ InitPipeline
    /\ tagPrefix = <<"p">>
    /\ maxHttpPackageSize = 3
    /\ uMaxConnAttempts \in 0..MaxUAttempts

ubUnchanged == UNCHANGED <<msgVars, fwdVars, httpVars, uMaxConnAttempts>>

\* Post: c.connect(attempt > 1)
ubForce(a) == a > 1

\* Post: if attempt > c.maxConnAttempts { return "exceeded max ..." }
ubExceededLate(a) == a > uMaxConnAttempts + 1
ubExceeded(a) == a > uMaxConnAttempts

\* Post: the write errors after which it goes back to WRITE
ubRetry(err) == err = "eof"

\* Post up to the WRITE label: make the message and serialize it; a
\* marshal error is returned at once
ubPost ==
    /\ upc = "idle"
    /\ uPosts < MaxUPosts
    /\ uPosts' = uPosts + 1
    /\ attempt' = 0
    /\ uForces' = <<>>
    /\ uOuts' = <<>>
    /\ \/ /\ upc' = "WRITE"
          /\ uRet' = "none"
       \/ /\ upc' = "idle"
          /\ uRet' = "marshal"
    /\ UNCHANGED <<uConn, uOpen>>
    /\ ubUnchanged

\* Post at WRITE: attempt++ and the check against maxConnAttempts
ubWriteLabel ==
    /\ upc = "WRITE"
    /\ attempt' = attempt + 1
    /\ IF ubExceeded(attempt + 1)
       THEN /\ upc' = "idle"
            /\ uRet' = "exceeded"
       ELSE /\ upc' = "connect"
            /\ UNCHANGED uRet
    /\ UNCHANGED <<uConn, uOpen, uPosts, uForces, uOuts>>
    /\ ubUnchanged

\* Unbuffered.connect(force): the cached connection when there is one and
\* force is false; otherwise close the old one and dial
ubConnect ==
    /\ upc = "connect"
    /\ LET force == ubForce(attempt) IN
       /\ uForces' = Append(uForces, force)
       /\ IF uConn # "nil" /\ ~force
          THEN /\ upc' = "write"
               /\ UNCHANGED <<uConn, uOpen, uOuts>>
          ELSE \/ /\ uConn' = "set"
                  /\ uOpen' = TRUE
                  /\ upc' = "write"
                  /\ UNCHANGED uOuts
               \/ /\ uOpen' = FALSE
                  /\ upc' = "WRITE"
                  /\ uOuts' = Append(uOuts, "dialfail")
                  /\ UNCHANGED uConn
    /\ UNCHANGED <<attempt, uRet, uPosts>>
    /\ ubUnchanged

\* Post's write loop: the payload written, io.EOF (try again) or any other
\* error (returned); a connection already closed gives such an error
ubWrite ==
    /\ upc = "write"
    /\ \E out \in {"ok", "eof", "werr"} :
          /\ out = "ok" => uOpen
          /\ out = "eof" => uOpen
          /\ uOuts' = Append(uOuts, out)
          /\ IF out = "ok"
             THEN upc' = "idle" /\ uRet' = "ok"
             ELSE IF ubRetry(out)
                  THEN upc' = "WRITE" /\ UNCHANGED uRet
                  ELSE upc' = "idle" /\ uRet' = "werr"
    /\ UNCHANGED <<uConn, uOpen, attempt, uPosts, uForces>>
    /\ ubUnchanged

\* connectNotify: Read returns io.EOF, c.conn.Close()
ubConnectNotify ==
    /\ uConn = "set"
    /\ uOpen
    /\ uOpen' = FALSE
    /\ UNCHANGED <<uConn, upc, attempt, uRet, uPosts, uForces, uOuts>>
    /\ ubUnchanged

\* Unbuffered.Close: close the cached connection and forget it
ubClose ==
    /\ uConn = "set"
    /\ uConn' = "nil"
    /\ uOpen' = FALSE
    /\ UNCHANGED <<upc, attempt, uRet, uPosts, uForces, uOuts>>
    /\ ubUnchanged

\* the steps of the Post call in progress
ubStep == ubWriteLabel \/ ubConnect \/ ubWrite

NextUnbuffered ==
    \/ ubPost
    \/ ubWriteLabel
    \/ ubConnect
    \/ ubWrite
    \/ ubConnectNotify
    \/ ubClose

\* a Post call in progress keeps running: every dial and every Write returns
SpecUnbuffered == InitUnbuffered /\ [][NextUnbuffered]_vars /\ WF_vars(ubStep)

\* ================================================================ claims
Range(q) == {q[i] : i \in 1..Len(q)}

RECURSIVE Frames(_)
\* the frames of the messages ids, back to back
Frames(ids) == IF ids = <<>> THEN <<>>
               ELSE Marshal(Head(ids), msg[Head(ids)]) \o Frames(Tail(ids))

\* C1: in forward mode, whenever the pending-buffer mutex is not held,
\* 0 <= len(pending) <= bufferLimit, for every interleaving of appends and
\* flushes.
C1_PendingWithinLimit ==
    muPending = "unlocked" => (0 <= Len(pending) /\ Len(pending) <= bufferLimit)

C1_Witness ==
    /\ muPending = "unlocked"
    /\ Len(pending) = bufferLimit
    /\ Len(taken) >= 2
    /\ rpc = "select"

\* C2: with a healthy server (no dial or write ever fails) and no queue-full,
\* buffer-full or marshal rejection, once the writer has closed done the
\* server has received exactly the frames of the messages the reader took,
\* each once, in the order it took them; and when nothing was posted after
\* the cancellation these are all the posted messages.
C2_ExactFramesInOrder ==
    (done /\ fails = 0 /\ ~rejected) =>
        /\ server = Frames(taken)
        /\ ~latePost =>
              \A i \in Ids : msg[i].via = "incoming" => i \in Range(taken)

C2_Witness ==
    /\ done
    /\ fails = 0
    /\ ~rejected
    /\ ~latePost
    /\ Len(taken) >= 2
    /\ Len(server) >= 3

\* C3: drain beats cancel: when the server is reachable throughout, the
\* writer exits only with pending empty and with every byte that was ever
\* appended to pending (before or after the cancellation) written to the
\* server; with no write error either, the server's stream is exactly the
\* appended bytes.
C3_DrainBeatsCancel ==
    (done /\ ~everDown) =>
        /\ pending = <<>>
        /\ Range(appended) \subseteq Range(server)
        /\ fails = 0 => server = appended

C3_Witness ==
    /\ done
    /\ ~everDown
    /\ cancelFull
    /\ dialOKs
    /\ Len(server) >= 2

\* C4: after the root context is cancelled the writer always terminates:
\* it is never left blocked in cond.Wait() once the reader has made its
\* final broadcast and closed readerDone.
C4_WriterNotStuckAfterReaderDone ==
    ~(readerDone /\ wpc = "wp_asleep" /\ condWait = "waiting")

\* C5: in drain mode with maxConnAttempts = N > 0 and every dial failing,
\* the writer makes at most N dial attempts.
C5_AtMostNDrainDials ==
    (maxConnAttempts > 0 /\ ~dialOKs) => drainDials <= maxConnAttempts

\* C8: no wake-up is missed: once the reader has appended bytes that make
\* len(pending) > writeThreshold and has broadcast, the writer is not
\* asleep in cond.Wait() waiting for a further broadcast.
C8_NoMissedWakeup ==
    ~( /\ wpc = "wp_asleep"
       /\ condWait = "waiting"
       /\ Len(pending) > writeThreshold
       /\ rpc \notin {"am_unlock", "am_broadcast"} )

\* C6: every reply channel gets at most one value from the pipeline, also
\* when an HTTP message fails and is requeued several times.
C6_SingleReply ==
    \A id \in Ids : msg[id].hasReply => reply[id].sent <= 1

\* C7: every message enqueued on httpCh is released exactly once: no
\* envelope is released twice, and once the dispatcher is back at its
\* receive with httpCh empty every enqueued message has been released.
C7_AllReleasedOnce ==
    /\ \A id \in Ids : released[id] <= 1
    /\ (dpc = "recv" /\ httpCh = <<>>) =>
          \A id \in Ids : msg[id].via = "http" => released[id] = 1

\* C9: with a tag prefix configured, every POST goes out under the tag
\* prefix + "." + original tag, the prefix applied exactly once, also for a
\* message that failed, was requeued and is posted again.
C9_PrefixOnce ==
    \A i \in 1..Len(posted) :
        posted[i].tag = Prefixed(tagPrefix, msg[posted[i].recs[1]].tag0)

\* C10: with n same-tagged single-record messages coalesced by one dispatch
\* round and no failed POST, the POST bodies hold maxHttpPackageSize records
\* each until fewer remain: n \div M bodies of M records and one body with
\* the remaining n % M, each sent to address/tag.
C10_BundlesFilled ==
    LET n == nextId - 1
        M == maxHttpPackageSize
        full == {i \in 1..Len(posted) : Len(posted[i].recs) = M}
    IN
    ( /\ rounds = 1
      /\ dpc = "recv"
      /\ httpCh = <<>>
      /\ httpFails = 0
      /\ \A i \in 1..n : msg[i].via = "http" /\ msg[i].tag0 = <<"t">> ) =>
        /\ Cardinality(full) = n \div M
        /\ Len(posted) = (n \div M) + (IF n % M = 0 THEN 0 ELSE 1)
        /\ \A i \in 1..Len(posted) :
              posted[i].tag = Prefixed(tagPrefix, <<"t">>)

\* C11: httpRetries caps the retries of a message: a message whose POSTs
\* fail is requeued at most httpRetries times, hence POSTed at most
\* httpRetries + 1 times.
C11_RetryCap ==
    \A id \in Ids :
        /\ msg[id].retries <= httpRetries
        /\ Cardinality({i \in 1..Len(posted) : posted[i].recs[1] = id})
              <= httpRetries + 1

\* C12: Unbuffered.Post always terminates; it makes at most maxConnAttempts
\* connection attempts, the first with force = false and every later one
\* with force = true; it tries again only after a dial failure or an io.EOF
\* write error and returns any other write error at once; it returns
\* "exceeded max connection attempts" exactly when maxConnAttempts attempts
\* have all ended in a dial failure or io.EOF.
C12_PostAttempts ==
    /\ Len(uForces) <= uMaxConnAttempts
    /\ \A i \in 1..Len(uForces) : uForces[i] = (i > 1)
    /\ \A i \in 1..(Len(uOuts) - 1) : uOuts[i] \in {"dialfail", "eof"}
    /\ (upc = "idle" /\ uRet = "werr") => uOuts[Len(uOuts)] = "werr"
    /\ (upc = "idle" /\ uRet \in {"ok", "werr", "exceeded"}) =>
          (uRet = "exceeded" <=>
              /\ Len(uOuts) = uMaxConnAttempts
              /\ \A i \in 1..Len(uOuts) : uOuts[i] \in {"dialfail", "eof"})

C12_PostTerminates ==
    /\ []C12_PostAttempts
    /\ (upc # "idle") ~> (upc = "idle")

C12_Witness ==
    /\ upc = "idle"
    /\ uRet = "exceeded"
    /\ uMaxConnAttempts = 3
    /\ uOuts = <<"eof", "dialfail", "eof">>

\* C13: buffer-full handling in appendMessage: when len(pending) +
\* len(encoded) > bufferLimit, pending is left unchanged and the error is
\* sent on replyCh if the message has one; otherwise the encoded bytes are
\* appended at the end of pending. Either way the condition variable is
\* broadcast after the pending lock is released and the message is
\* released, exactly once.
C13_LockStep ==
    (rpc = "am_lock" /\ rpc' = "am_unlock") =>
        IF Len(pending) + Len(rbuf) > bufferLimit
        THEN /\ pending' = pending
             /\ reply'[rmsg].sent =
                   reply[rmsg].sent + (IF msg[rmsg].hasReply THEN 1 ELSE 0)
        ELSE /\ pending' = pending \o rbuf
             /\ reply' = reply

C13_BroadcastStep ==
    (rpc = "am_broadcast" /\ rpc' # "am_broadcast") =>
        /\ muPending # "reader"
        /\ condWait = "waiting" => condWait' = "signalled"
        /\ released'[rmsg] = 1
        /\ reply'[rmsg].closed

C13_BufferFull ==
    /\ [][C13_LockStep /\ C13_BroadcastStep]_vars
    /\ [](\A i \in 1..Len(taken) :
            released[taken[i]] = (IF taken[i] = rmsg THEN 0 ELSE 1))

C13_Witness ==
    /\ rpc = "am_broadcast"
    /\ msg[rmsg].hasReply
    /\ reply[rmsg].sent = 1
    /\ pending # <<>>
    /\ Len(pending) + Len(rbuf) > bufferLimit
    /\ condWait = "waiting"

\* C14: whenever pending is empty (initially, or drained by the writer) it
\* is the zero-length prefix of the original backing buffer and its
\* capacity is bufferLimit, whatever partial writes, appends and
\* reallocations came before; and while pending lives in the backing buffer
\* its capacity is what is left of the buffer after its start.
C14_CapacityRestored ==
    /\ pending = <<>> => (pendingOff = 0 /\ pendingCap = bufferLimit)
    /\ pendingOff >= 0 => pendingCap = bufferLimit - pendingOff
    /\ Len(pending) <= pendingCap

C14_Witness ==
    /\ wpc = "wr_unlock"
    /\ ~wErr
    /\ pending = <<>>
    /\ pendingOff = 0
    /\ Len(server) > bufferLimit

\* C15: in HTTP mode messages with different tags never merge: the records
\* of every POST body come from messages that were all posted with the same
\* tag, and the POST goes to the URL of that tag (its last component is the
\* tag; how often the prefix stands before it is C9's subject).
C15_OneTagPerPost ==
    \A i \in 1..Len(posted) :
        LET t0 == msg[posted[i].recs[1]].tag0 IN
        /\ \A k \in 1..Len(posted[i].recs) : msg[posted[i].recs[k]].tag0 = t0
        /\ SubSeq(posted[i].tag, Len(posted[i].tag) - Len(t0) + 1,
                  Len(posted[i].tag)) = t0

\* C16: a write error in writePending leaves pending unchanged, also when
\* the failed write had sent some bytes; the writer then closes the
\* connection and sets it to nil, and it writes again only on a connection
\* it has dialed since, sending pending from its head again.
C16_WriteStep ==
    (wpc = "flush" /\ wpc' = "wr_unlock") =>
        /\ conn # "nil"
        /\ wErr' => pending' = pending
        /\ \E k \in 0..Len(pending) : server' = server \o SubSeq(pending, 1, k)

C16_ErrorStep ==
    (wpc = "wr_unlock" /\ wpc' # "wr_unlock" /\ wErr) =>
        (conn' = "nil" /\ wpc' # "flush")

C16_WriteError ==
    /\ [][C16_WriteStep /\ C16_ErrorStep]_vars
    /\ [](wpc = "flush" => conn # "nil")

C16_Witness ==
    /\ wpc = "wr_unlock"
    /\ ~wErr
    /\ fails = 1
    /\ conn = "open"
    /\ pending = <<>>
    /\ Len(server) > Len(appended)

\* C17: during drain, write errors count against maxConnAttempts: with
\* readerDone closed, pending non-empty, maxConnAttempts > 0 and a server
\* that accepts every connection and fails every write, the writer
\* terminates.
C17_DrainWriteErrorsBounded ==
    (readerDone /\ pending # <<>> /\ wpc = "flush" /\ maxConnAttempts > 0)
        ~> done

\* C18: the writer returns, and closes done, only with readerDone closed
\* and either pending empty or the drain-mode connect failures above
\* maxConnAttempts; so while the context is not cancelled and the reader is
\* running the writer never terminates, however many connects or writes
\* fail.
C18_ExitOnlyInDrain ==
    /\ wpc \in {"exit", "done"} =>
          /\ readerDone
          /\ \/ pending = <<>>
             \/ (maxConnAttempts > 0 /\ connAttempts > maxConnAttempts)
    /\ done => wpc = "done"
    /\ (~ctxDone \/ rpc # "exited") => ~done

C18_Witness ==
    /\ done
    /\ pending # <<>>
    /\ connAttempts > maxConnAttempts
    /\ fails = MaxFails

\* C19: in drain mode with empty pending the writer exits without having to
\* establish a connection: with readerDone closed and nothing to flush it
\* makes no dial attempt (no dial under the uncancellable drain context has
\* been made, and failed, while pending is empty).
C19_NoDrainDialWhenEmpty ==
    ~(wpc = "conn_failed" /\ parentBg /\ readerDone /\ pending = <<>>)

\* C20: after the root context fires, every message that is in m.incoming
\* when the reader leaves its select loop is taken and passed to
\* appendMessage, which has returned, before readerDone is closed; and the
\* reader's final broadcast happens before readerDone is closed.
C20_CloseStep ==
    (readerDone' # readerDone) => (rpc = "close" /\ rpc' = "exited")

C20_BroadcastStep ==
    (rpc # "close" /\ rpc' = "close") =>
        /\ ctxDone
        /\ rphase = "drain"
        /\ ~readerDone
        /\ condWait' = broadcast(condWait)

C20_DrainedBeforeReaderDone ==
    /\ [][C20_CloseStep /\ C20_BroadcastStep]_vars
    /\ []((readerDone \/ rpc \in {"close", "exited"}) =>
            /\ rmsg = 0
            /\ \A i \in Range(leftWith) :
                  /\ i \in Range(taken)
                  /\ released[i] = 1
                  /\ reply[i].closed)

C20_Witness ==
    /\ readerDone
    /\ Len(leftWith) = 2
    /\ ~latePost
    /\ Len(taken) = 2
    /\ appended # <<>>

\* C21: lock ordering between m.muPending and m.cond.L: the writer never
\* holds both at the same time; waitPending holds only the condvar mutex
\* while it checks and waits.
C21_WriterNeverHoldsBoth ==
    ~(condL = "writer" /\ muPending \in {"writer", "writerR"})

\* C22: while the root context is not cancelled the writer leaves
\* waitPending and starts a connect/flush cycle only after observing
\* len(pending) > writeThreshold (strictly); once it flushes, it keeps
\* writing until it observes pending empty, not only the bytes above the
\* threshold.
C22_LeaveStep ==
    (/\ wpc \in {"wp_select", "wp_rlocked", "wp_ctx"}
     /\ wpc' = "conn_loop"
     /\ ~ctxDone) =>
        (wpc = "wp_rlocked" /\ Len(pending) > writeThreshold)

C22_FlushStep ==
    /\ (wpc = "wr_unlock" /\ wpc' # "wr_unlock" /\ ~wErr) => wpc' = "fl_check"
    /\ (wpc = "fl_rlocked" /\ wpc' # "fl_rlocked") =>
          wpc' = (IF pending = <<>> THEN "drain_q" ELSE "flush")

C22_ThresholdThenFlushAll ==
    /\ [][C22_LeaveStep /\ C22_FlushStep]_vars
    /\ []((~ctxDone /\ wpc \in {"conn_loop", "dial", "conn_failed"}) =>
              Len(pending) > writeThreshold)

C22_Witness ==
    /\ ~ctxDone
    /\ wpc = "drain_q"
    /\ conn = "open"
    /\ pending = <<>>
    /\ Len(server) > writeThreshold + 1
    /\ server = appended
    /\ fails = 0

RECURSIVE chainLast(_, _, _)
\* the last message reachable from id through Next
chainLast(ms, id, fuel) ==
    IF ms[id].Next = 0 \/ fuel = 0 THEN id
    ELSE chainLast(ms, ms[id].Next, fuel - 1)

\* C23: no record is lost in HTTP bundling: for every bundle head the
\* dispatcher holds, End is the last message reachable from the head
\* through Next and the head's Len is the number of records it carries
\* (its own and those of the messages linked from it), also when a head or
\* a spliced message is a combined message requeued after a failed POST.
C23_BundleChainsIntact ==
    \A h \in msgBundles :
        /\ msg[h].End = chainLast(msg, h, Cardinality(Ids))
        /\ msg[h].Len = Len(chainRecords(msg, h, Cardinality(Ids)))

\* C24: ping is one-shot: after a successful write the connection ping
\* dialed is closed, so the only connections of ping still open are those
\* of pings that ended with an error after the dial.
C24_PingClosesConn ==
    pingOpen <= Cardinality({i \in Ids : msg[i].via = "ping"
                                         /\ reply[i].sent > 0})

\* C25: when the writer terminates, its deferred cleanup closes the
\* connection it holds: no connection opened by the writer is left open
\* once done is closed.
C25_NoOpenConnAfterDone ==
    done => conn # "open"

\* C26: in the Unbuffered client the cached connection c.conn is in every
\* reachable state either nil or an open connection, so a Post whose first
\* attempt calls connect with force = false never gets a closed connection.
C26_CachedConnOpen ==
    /\ uConn = "set" => uOpen
    /\ (upc = "write" /\ attempt = 1) => uOpen

\* C27: the HTTP dispatcher never observes its context and has no exit: in
\* http mode, in every reachable state, also after the root context is
\* cancelled and httpCh is empty, the dispatcher has not terminated and
\* done is still open.
C27_DispatcherNeverExits ==
    /\ dpc \in {"recv", "post_single", "drain", "post_next", "post_bundles"}
    /\ ~done

C27_Witness ==
    /\ ctxDone
    /\ httpCh = <<>>
    /\ dpc = "recv"
    /\ nextId > MaxHttpMsgs
    /\ \A i \in 1..MaxHttpMsgs : msg[i].via = "http" => released[i] >= 1

====
